---- MODULE Spec2Model ----
(***************************************************************************)
(* A model of the BMP filter tool: main.c (argument check, header check,   *)
(* decode, one transform, encode) and filters.c (grayscale, reflect, blur, *)
(* edges).  The pixel grid is a flat row-major buffer, as the C arrays     *)
(* are laid out; every loop iteration of a transform is one step.          *)
(***************************************************************************)
EXTENDS Integers, Sequences, FiniteSets, TLC

(* ---------------- bounds of the model ---------------- *)
MaxH == 3        \* largest height a header declares
MaxW == 4        \* largest width a header declares
MaxMarks == 1    \* a decoded grid has at most this many pixels off its majority colour
SqrtCap == 2048  \* upper end of the integer square-root search

(* ---------------- constants of the program ---------------- *)
REQUIRED_ARGS == 4
SUCCESS == 0
ERR_ARGS == 1
ERR_OUTPUT_FILE == 2
ERR_HEADER_READ == 3
ERR_FORMAT == 4
ERR_MEMORY == 5
ERR_IMAGE_READ == 6
ERR_SEEK == 7
ERR_WRITE_HEADER == 8
ERR_WRITE_INFO == 9
ERR_WRITE_DATA == 10
ERR_WRITE_PADDING == 11
BITMAP_HEADER_SIZE == 54
BITMAP_TYPE == 19778
BITMAP_COMPRESSION == 0
ByteRange == 256
SIZEOF_BITMAPFILEHEADER == 14
SIZEOF_BITMAPINFOHEADER == 40
SIZEOF_RGBTRIPLE == 3

(* ---------------- pixels ---------------- *)
RGBTRIPLE(b, g, r) == [rgbtBlue |-> b, rgbtGreen |-> g, rgbtRed |-> r]
Channels == {"rgbtBlue", "rgbtGreen", "rgbtRed"}

\* colours of the input pixels: one with three different channels, and white
Palette == {RGBTRIPLE(11, 21, 30), RGBTRIPLE(255, 255, 255)}
\* contents of the bytes next to a buffer in memory
Garbage == {RGBTRIPLE(0, 0, 0), RGBTRIPLE(7, 77, 255)}

\* the value a BYTE field holds after an int or double is assigned to it
ToByte(v) == v % ByteRange

\* round(n / d) of <math.h> for n >= 0, d > 0: half away from zero
RoundDiv(n, d) == (2 * n + d) \div (2 * d)

RECURSIVE ISqrtBetween(_, _, _)
ISqrtBetween(n, lo, hi) ==
    IF lo >= hi THEN lo
    ELSE LET mid == (lo + hi + 1) \div 2
         IN  IF mid * mid <= n THEN ISqrtBetween(n, mid, hi)
                               ELSE ISqrtBetween(n, lo, mid - 1)

\* round(sqrt(n)) for an integer n >= 0
RoundSqrt(n) ==
    LET s == ISqrtBetween(n, 0, SqrtCap)
    IN  IF n > s * s + s THEN s + 1 ELSE s

Abs(x) == IF x < 0 THEN -x ELSE x

(* ---------------- state ---------------- *)
VARIABLES
    pc,        \* position in the program
    argc,      \* number of command line arguments
    argv1,     \* argv[FLAG_INDEX], a sequence of characters
    flag,      \* argv[FLAG_INDEX][1] once main has read it
    bf,        \* BITMAPFILEHEADER read from the input
    bi,        \* BITMAPINFOHEADER read from the input
    height,    \* abs(bi.biHeight)
    width,     \* bi.biWidth
    image,     \* the pixel grid, flat: cell (r,c) is image[r*width + c]
    temp,      \* the transform's temporary buffer, flat; <<>> when not allocated
    i, j,      \* loop counters of the running loop
    out,       \* what has been written to the output file
    exitCode,  \* exit status of the process, -1 while it runs
    cause,     \* the place the run ended at, "" while it runs
    orig,      \* the grid as decoded, before the transform
    gmag,      \* edges: round(sqrt(Gx^2 + Gy^2)) per cell and channel, before the clamp
    stages,    \* the passes over the grid entered so far, in order
    raw,       \* the values assigned to BYTE channels by the last step, before conversion
    inptr,     \* the input stream: "none" before fopen and when fopen failed, "open", "closed"
    outptr,    \* the output stream, likewise; fopen in mode "wb" creates or truncates the file
    inpos,     \* the file position of the input stream, in bytes from the start of the file
    res        \* the use of resources so far: the buffers held (live), how often each
               \* was allocated (allocs) and released (frees), how often each stream
               \* was closed (closes)

vars == <<pc, argc, argv1, flag, bf, bi, height, width, image, temp, i, j,
          out, exitCode, cause, orig, gmag, stages, raw, inptr, outptr, inpos, res>>

NoHeader == [bfType |-> 0, bfOffBits |-> 0]
NoInfo == [biSize |-> 0, biWidth |-> 0, biHeight |-> 0, biBitCount |-> 0, biCompression |-> 0]
\* the output file: the two headers as written (NoHeader, NoInfo while not
\* written) and, per row written, its pixel bytes and its padding bytes
NoOutput == [bf |-> NoHeader, bi |-> NoInfo, rows |-> <<>>]

Flags == {"b", "e", "g", "r"}
Argv1Set == {<<"-", "b">>, <<"-", "e">>, <<"-", "g">>, <<"-", "r">>, <<"-", "x">>,
             <<"-", "g", "z">>, <<"x", "r">>, <<"g">>}

\* the character s[n] of the C string s; s[strlen(s)] is the terminator, written ""
CharAt(s, n) == IF n < Len(s) THEN s[n + 1] ELSE ""

\* the buffers of the program (image in main, temp in reflect, blur and edges)
\* and its two streams
Buffers == {"image", "temp"}
Streams == {"inptr", "outptr"}

\* nothing allocated, nothing released, nothing closed
NoResources == [live |-> {}, allocs |-> [b \in Buffers |-> 0],
                frees |-> [b \in Buffers |-> 0], closes |-> [f \in Streams |-> 0]]

\* calloc returned buffer b
Allocated(r, b) == [r EXCEPT !.live = @ \cup {b}, !.allocs[b] = @ + 1]

\* free(b)
Freed(r, b) == [r EXCEPT !.live = @ \ {b}, !.frees[b] = @ + 1]

\* the streams of S are closed, each once more
Closed(r, S) == [r EXCEPT !.closes = [f \in Streams |-> IF f \in S THEN @[f] + 1 ELSE @[f]]]

Init ==
    /\ pc = "validate_args"
    /\ argc \in {REQUIRED_ARGS - 1, REQUIRED_ARGS}
    /\ argv1 \in Argv1Set
    /\ flag = ""
    /\ bf = NoHeader
    /\ bi = NoInfo
    /\ height = 0
    /\ width = 0
    /\ image = <<>>
    /\ temp = <<>>
    /\ i = 0
    /\ j = 0
    /\ out = NoOutput
    /\ exitCode = -1
    /\ cause = ""
    /\ orig = <<>>
    /\ gmag = <<>>
    /\ stages = <<>>
    /\ raw = {}
    /\ inptr = "none"
    /\ outptr = "none"
    /\ inpos = 0
    /\ res = NoResources

\* the process ends with status code
Halt(code, why) ==
    /\ pc' = "halt"
    /\ exitCode' = code
    /\ cause' = why

(* ---------------- main.c ---------------- *)
\* every return of main after open_files succeeded closes both streams first
CloseOnReturn ==
    /\ inptr' = IF pc' = "halt" THEN "closed" ELSE inptr
    /\ outptr' = IF pc' = "halt" THEN "closed" ELSE outptr

\* a return of main before the grid is allocated: fclose(outptr); fclose(inptr)
ReturnCloses == res' = IF pc' = "halt" THEN Closed(res, Streams) ELSE res

\* a return of main once the grid is allocated: free(image), then the two fclose
ReturnReleases == res' = IF pc' = "halt" THEN Closed(Freed(res, "image"), Streams) ELSE res

\* exit(1) in a transform: the C library closes every open stream as the
\* process ends; the transform and main release nothing
CloseOnExit ==
    /\ inptr' = IF pc' = "halt" THEN "closed" ELSE inptr
    /\ outptr' = IF pc' = "halt" THEN "closed" ELSE outptr

\* the start of reflect, blur and edges: calloc of temp, exit(1) when it
\* fails; when the loops that follow run no iteration, free(temp) and return
\* are part of the same step
TempOnEnter ==
    res' = IF pc' = "halt" THEN Closed(res, Streams)
           ELSE IF pc' \in {"reflect_loop", "blur_loop", "edges_loop"}
                THEN Allocated(res, "temp")
                ELSE Freed(Allocated(res, "temp"), "temp")

\* the end of a transform that holds temp: free(temp)
TempOnReturn == res' = IF pc' = pc THEN res ELSE Freed(res, "temp")

ValidateArgs ==
    /\ pc = "validate_args"
    /\ IF argc # REQUIRED_ARGS
       THEN Halt(ERR_ARGS, "usage") /\ flag' = flag
       ELSE IF CharAt(argv1, 1) \notin Flags
            THEN Halt(ERR_ARGS, "usage") /\ flag' = flag
            ELSE /\ pc' = "open_files"
                 /\ flag' = CharAt(argv1, 1)
                 /\ UNCHANGED <<exitCode, cause>>
    /\ UNCHANGED <<argc, argv1, bf, bi, height, width, image, temp, i, j,
                   out, orig, gmag, stages, raw>>
    /\ UNCHANGED <<inptr, outptr>>
    /\ UNCHANGED inpos
    /\ UNCHANGED res

OpenFiles ==
    /\ pc = "open_files"
    /\ \E inOk \in BOOLEAN, outOk \in BOOLEAN :
          IF ~inOk
          THEN Halt(ERR_ARGS, "open_input") /\ UNCHANGED <<inptr, outptr>>
          ELSE IF ~outOk
          THEN Halt(ERR_OUTPUT_FILE, "open_output") /\ inptr' = "closed" /\ outptr' = outptr
          ELSE /\ pc' = "read_headers"
               /\ inptr' = "open"
               /\ outptr' = "open"
               /\ UNCHANGED <<exitCode, cause>>
    /\ UNCHANGED <<argc, argv1, flag, bf, bi, height, width, image, temp, i, j,
                   out, orig, gmag, stages, raw>>
    /\ UNCHANGED inpos
    /\ res' = IF inptr' = "closed" THEN Closed(res, {"inptr"}) ELSE res

FileHeaders == [bfType : {BITMAP_TYPE, BITMAP_TYPE + 1},
                bfOffBits : {BITMAP_HEADER_SIZE, BITMAP_HEADER_SIZE + 84}]
\* biWidth and biHeight are signed (LONG): a header can declare 0 and negative values
InfoHeaders == [biSize : {40, 124}, biWidth : -1..MaxW, biHeight : -1..MaxH,
                biBitCount : {24, 32}, biCompression : {BITMAP_COMPRESSION, 1}]

ReadHeaders ==
    /\ pc = "read_headers"
    /\ \/ Halt(ERR_HEADER_READ, "header_read") /\ UNCHANGED <<bf, bi, inpos>>
       \/ /\ bf' \in FileHeaders
          /\ bi' \in InfoHeaders
          /\ inpos' = inpos + SIZEOF_BITMAPFILEHEADER + SIZEOF_BITMAPINFOHEADER
          /\ pc' = "check_format"
          /\ UNCHANGED <<exitCode, cause>>
    /\ UNCHANGED <<argc, argv1, flag, height, width, image, temp, i, j,
                   out, orig, gmag, stages, raw>>
    /\ CloseOnReturn
    /\ ReturnCloses

UnsupportedAnyDepth(fh, ih) ==
    \/ fh.bfType # BITMAP_TYPE
    \/ fh.bfOffBits # BITMAP_HEADER_SIZE
    \/ ih.biSize # 40
    \/ ih.biCompression # BITMAP_COMPRESSION

\* the condition of the format check of main
Unsupported(fh, ih) ==
    \/ fh.bfType # BITMAP_TYPE
    \/ fh.bfOffBits # BITMAP_HEADER_SIZE
    \/ ih.biSize # 40
    \/ ih.biBitCount # 24
    \/ ih.biCompression # BITMAP_COMPRESSION

FormatCodeAsHeaderRead(fh, ih) == IF Unsupported(fh, ih) THEN ERR_HEADER_READ ELSE SUCCESS

\* what the format check of main returns for the headers fh and ih
FormatCode(fh, ih) == IF Unsupported(fh, ih) THEN ERR_FORMAT ELSE SUCCESS

CheckFormat ==
    /\ pc = "check_format"
    /\ IF FormatCode(bf, bi) # SUCCESS
       THEN Halt(FormatCode(bf, bi), "format") /\ UNCHANGED <<height, width>>
       ELSE /\ height' = Abs(bi.biHeight)
            /\ width' = bi.biWidth
            /\ pc' = "alloc_image"
            /\ UNCHANGED <<exitCode, cause>>
    /\ UNCHANGED <<argc, argv1, flag, bf, bi, image, temp, i, j,
                   out, orig, gmag, stages, raw>>
    /\ CloseOnReturn
    /\ UNCHANGED inpos
    /\ ReturnCloses

\* what calloc returns: a zeroed buffer of n pixels
Zeroed(n) == [k \in 0..(n - 1) |-> RGBTRIPLE(0, 0, 0)]

\* the loops  for i < height: for j < width  over a grid run no iteration
EmptyGrid == height <= 0 \/ width <= 0

\* calloc(height, width * sizeof(RGBTRIPLE)) can return a buffer: not with a
\* negative width and a row or more, when the size, converted to size_t, is
\* more than any memory; a request of 0 bytes may return NULL or a buffer
Allocatable == width >= 0 \/ height = 0

\* the allocation of the grid; with height 0 the reading loop runs no
\* iteration and main goes on to process_image
AllocImage ==
    /\ pc = "alloc_image"
    /\ \/ Halt(ERR_MEMORY, "image_alloc") /\ UNCHANGED <<image, i, orig>>
       \/ /\ Allocatable
          /\ image' = Zeroed(height * width)
          /\ i' = 0
          /\ IF height > 0
             THEN pc' = "read_rows" /\ orig' = orig
             ELSE pc' = "process_image" /\ orig' = Zeroed(height * width)
          /\ UNCHANGED <<exitCode, cause>>
    /\ UNCHANGED <<argc, argv1, flag, bf, bi, height, width, temp, j,
                   out, gmag, stages, raw>>
    /\ CloseOnReturn
    /\ UNCHANGED inpos
    /\ res' = IF pc' = "halt" THEN Closed(res, Streams) ELSE Allocated(res, "image")

\* number of pixels of the first n cells of img that differ from its most frequent colour
Marks(img, n) ==
    LET count(p) == Cardinality({k \in 0..(n - 1) : img[k] = p})
        most == CHOOSE m \in 0..n :
                   /\ \E p \in Palette : count(p) = m
                   /\ \A p \in Palette : count(p) <= m
    IN  n - most

PaddingOfWidth(w) == (4 - (w % 4)) % 4
Padding(w) == (4 - ((w * SIZEOF_RGBTRIPLE) % 4)) % 4

ReadRow ==
    /\ pc = "read_rows"
    /\ \/ width > 0 /\ Halt(ERR_IMAGE_READ, "image_read") /\ UNCHANGED <<image, i, orig, inpos>>
       \/ \E row \in [0..(width - 1) -> Palette] :
            LET img == [k \in DOMAIN image |->
                          IF k \div width = i THEN row[k % width] ELSE image[k]]
            IN  /\ Marks(img, (i + 1) * width) <= MaxMarks
                /\ image' = img
                /\ \/ /\ Halt(ERR_SEEK, "seek")
                      /\ inpos' = inpos + width * SIZEOF_RGBTRIPLE
                      /\ UNCHANGED <<i, orig>>
                   \/ /\ i' = i + 1
                      /\ inpos' = inpos + width * SIZEOF_RGBTRIPLE + Padding(width)
                      /\ IF i + 1 < height
                         THEN pc' = pc /\ orig' = orig
                         ELSE pc' = "process_image" /\ orig' = img
                      /\ UNCHANGED <<exitCode, cause>>
    /\ UNCHANGED <<argc, argv1, flag, bf, bi, height, width, temp, j,
                   out, gmag, stages, raw>>
    /\ CloseOnReturn
    /\ ReturnReleases


(* ---------------- loops over the grid ---------------- *)
\* the end of one iteration of  for i < height: for j < width:  that goes on to
\* after when the last cell is done
NextCell(after) ==
    IF j + 1 < width THEN i' = i /\ j' = j + 1 /\ pc' = pc
    ELSE IF i + 1 < height THEN i' = i + 1 /\ j' = 0 /\ pc' = pc
    ELSE i' = 0 /\ j' = 0 /\ pc' = after

\* the cell of buffer buf at row r and column c, as the C expression buf[r][c]
\* addresses it: the flat cell r*w + c when that lies in the buffer, and
\* otherwise whatever the memory next to the buffer holds (mem)
Cell(buf, mem, w, r, c) ==
    LET k == r * w + c
    IN  IF k \in DOMAIN buf THEN buf[k] ELSE mem[k]

(* ---------------- process_image ---------------- *)
EntrySwapped(f) ==
    CASE f = "b" -> "blur"
      [] f = "e" -> "edges"
      [] f = "g" -> "reflect"
      [] f = "r" -> "grayscale"

\* the switch of process_image: the function each flag calls
Entry(f) ==
    CASE f = "b" -> "blur"
      [] f = "e" -> "edges"
      [] f = "g" -> "grayscale"
      [] f = "r" -> "reflect"

ProcessImage ==
    /\ pc = "process_image"
    /\ pc' = Entry(flag)
    /\ UNCHANGED <<argc, argv1, flag, bf, bi, height, width, image, temp, i, j,
                   out, exitCode, cause, orig, gmag, stages, raw>>
    /\ UNCHANGED <<inptr, outptr>>
    /\ UNCHANGED inpos
    /\ UNCHANGED res

(* ---------------- grayscale ---------------- *)
GrayValueByteSum(p) == RoundDiv((p.rgbtRed + p.rgbtGreen + p.rgbtBlue) % ByteRange, 3)
GrayValueTruncated(p) == (p.rgbtRed + p.rgbtGreen + p.rgbtBlue) \div 3
GrayValue(p) == RoundDiv(p.rgbtRed + p.rgbtGreen + p.rgbtBlue, 3)

GrayscaleEnter ==
    /\ pc = "grayscale"
    /\ pc' = IF EmptyGrid THEN "write_image" ELSE "grayscale_loop"
    /\ i' = 0
    /\ j' = 0
    /\ stages' = Append(stages, "grayscale")
    /\ UNCHANGED <<argc, argv1, flag, bf, bi, height, width, image, temp,
                   out, exitCode, cause, orig, gmag, raw>>
    /\ UNCHANGED <<inptr, outptr>>
    /\ UNCHANGED inpos
    /\ UNCHANGED res

GrayscalePixel ==
    /\ pc = "grayscale_loop"
    /\ LET k == i * width + j
           a == GrayValue(image[k])
       IN  /\ image' = [image EXCEPT ![k] = RGBTRIPLE(ToByte(a), ToByte(a), ToByte(a))]
           /\ raw' = {a}
    /\ NextCell("write_image")
    /\ UNCHANGED <<argc, argv1, flag, bf, bi, height, width, temp,
                   out, exitCode, cause, orig, gmag, stages>>
    /\ UNCHANGED <<inptr, outptr>>
    /\ UNCHANGED inpos
    /\ UNCHANGED res

(* ---------------- reflect ---------------- *)
ReflectEnter ==
    /\ pc = "reflect"
    /\ \/ Halt(1, "temp_alloc") /\ UNCHANGED <<temp, i, j, stages>>
       \/ /\ temp' = Zeroed(height * width)
          /\ i' = 0
          /\ j' = 0
          /\ pc' = "reflect_loop"
          /\ stages' = Append(stages, "reflect")
          /\ UNCHANGED <<exitCode, cause>>
    /\ UNCHANGED <<argc, argv1, flag, bf, bi, height, width, image,
                   out, orig, gmag, raw>>
    /\ CloseOnExit
    /\ UNCHANGED inpos
    /\ TempOnEnter

\* the bound of the inner loop: the number of swaps in one row
SwapCountFull(w) == w
SwapCount(w) == w \div 2

RestoredFromImage(t, m, a) == m[a]

\* the value the third assignment of the swap stores: temp[i][j], where t is
\* temp and m is image after the first two assignments and a is the cell (i,j)
Restored(t, m, a) == t[a]

\* one iteration of the inner loop: the swap of image[i][j] and image[i][width-1-j]
ReflectSwap ==
    /\ pc = "reflect_loop"
    /\ i < height
    /\ j < SwapCount(width)
    /\ LET a == i * width + j
           b == i * width + (width - 1 - j)
           t == [temp EXCEPT ![a] = image[a]]
           m == [image EXCEPT ![a] = image[b]]
       IN  /\ temp' = t
           /\ image' = [m EXCEPT ![b] = Restored(t, m, a)]
           /\ raw' = {image[b][ch] : ch \in Channels} \cup {t[a][ch] : ch \in Channels}
    /\ j' = j + 1
    /\ UNCHANGED <<pc, argc, argv1, flag, bf, bi, height, width, i,
                   out, exitCode, cause, orig, gmag, stages>>
    /\ UNCHANGED <<inptr, outptr>>
    /\ UNCHANGED inpos
    /\ UNCHANGED res

\* the inner loop of row i is over: the next row
ReflectNextRow ==
    /\ pc = "reflect_loop"
    /\ i < height
    /\ j >= SwapCount(width)
    /\ i' = i + 1
    /\ j' = 0
    /\ UNCHANGED <<pc, argc, argv1, flag, bf, bi, height, width, image, temp,
                   out, exitCode, cause, orig, gmag, stages, raw>>
    /\ UNCHANGED <<inptr, outptr>>
    /\ UNCHANGED inpos
    /\ UNCHANGED res

\* the outer loop is over: free(temp) and return
ReflectReturn ==
    /\ pc = "reflect_loop"
    /\ i >= height
    /\ temp' = <<>>
    /\ i' = 0
    /\ pc' = "write_image"
    /\ UNCHANGED <<argc, argv1, flag, bf, bi, height, width, image, j,
                   out, exitCode, cause, orig, gmag, stages, raw>>
    /\ UNCHANGED <<inptr, outptr>>
    /\ UNCHANGED inpos
    /\ TempOnReturn


(* ---------------- the border cases of blur and edges ---------------- *)
\* blur and edges test the row of a pixel with three separate ifs (first row,
\* rows in between, last row) and, inside each, its column with three more;
\* a case is a pair <<row case, column case>>
Cases == << <<"first", "first">>, <<"first", "inner">>, <<"first", "last">>,
            <<"inner", "first">>, <<"inner", "inner">>, <<"inner", "last">>,
            <<"last", "first">>,  <<"last", "inner">>,  <<"last", "last">> >>

\* the condition of the if of case k on index x of a dimension of size n
Holds(k, x, n) ==
    CASE k = "first" -> x = 0
      [] k = "inner" -> (0 < x) /\ (x < (n - 1))
      [] k = "last"  -> x = (n - 1)

\* the offsets from the pixel that the body of case k reads
Offsets(k) ==
    CASE k = "first" -> {0, 1}
      [] k = "inner" -> {-1, 0, 1}
      [] k = "last"  -> {-1, 0}

\* the literal the body of a case of blur divides by
Divisor(case) ==
    IF case[1] = "inner" /\ case[2] = "inner" THEN 9
    ELSE IF case[1] = "inner" \/ case[2] = "inner" THEN 6
    ELSE 4

\* the cases whose ifs hold at pixel (r,c), in the order the code runs them;
\* each assigns temp[r][c], so the last one decides the value
CasesAt(h, w, r, c) ==
    SelectSeq(Cases, LAMBDA case : Holds(case[1], r, h) /\ Holds(case[2], c, w))

\* the sum a case computes for channel ch of pixel (r,c): over the cells the
\* case reads, the channel times the multiplier K gives the cell's offset
CaseSum(K, buf, mem, w, r, c, case, ch) ==
    LET T(dr, dc) == IF dr \in Offsets(case[1]) /\ dc \in Offsets(case[2])
                     THEN Cell(buf, mem, w, r + dr, c + dc)[ch] * K[dr + 2][dc + 2]
                     ELSE 0
    IN  T(-1, -1) + T(-1, 0) + T(-1, 1)
        + T(0, -1) + T(0, 0) + T(0, 1)
        + T(1, -1) + T(1, 0) + T(1, 1)

\* the flat cells outside a buffer of h*w pixels that the cases at (r,c) read
OutsideCells(h, w, r, c) ==
    LET cs == CasesAt(h, w, r, c)
        read == UNION {{(r + dr) * w + (c + dc) :
                           dr \in Offsets(cs[n][1]), dc \in Offsets(cs[n][2])} :
                       n \in 1..Len(cs)}
    IN  read \ (0..(h * w - 1))

\* the contents the cells of set S outside a buffer can have when a step reads
\* them: the reads are out of bounds, so any value can come back; one value
\* of Garbage in the cells before the buffer and one in the cells after it
\* stand for that
Memory(S) == {[k \in S |-> IF k < 0 THEN lo ELSE hi] : lo \in Garbage, hi \in Garbage}

(* ---------------- blur ---------------- *)
\* blur adds the cells up as they are
Plain == << <<1, 1, 1>>, <<1, 1, 1>>, <<1, 1, 1>> >>

\* what a case of blur computes for channel ch of pixel (r,c)
BlurChannel(buf, mem, w, r, c, case, ch) ==
    RoundDiv(CaseSum(Plain, buf, mem, w, r, c, case, ch), Divisor(case))

\* the pass that follows the copy loop of blur: free(temp) and return
AfterBlurCopy == "write_image"

BlurEnter ==
    /\ pc = "blur"
    /\ \/ Halt(1, "temp_alloc") /\ UNCHANGED <<temp, i, j, stages>>
       \/ /\ temp' = Zeroed(height * width)
          /\ i' = 0
          /\ j' = 0
          /\ pc' = IF EmptyGrid THEN AfterBlurCopy ELSE "blur_loop"
          /\ stages' = Append(stages, "blur")
          /\ UNCHANGED <<exitCode, cause>>
    /\ UNCHANGED <<argc, argv1, flag, bf, bi, height, width, image,
                   out, orig, gmag, raw>>
    /\ CloseOnExit
    /\ UNCHANGED inpos
    /\ TempOnEnter

BlurStoreInPlace(k, p) ==
    /\ temp' = [temp EXCEPT ![k] = p]
    /\ image' = [image EXCEPT ![k] = p]

\* where the value of a pixel computed by blur is stored
BlurStore(k, p) ==
    /\ temp' = [temp EXCEPT ![k] = p]
    /\ image' = image

BlurPixel ==
    /\ pc = "blur_loop"
    /\ \E mem \in Memory(OutsideCells(height, width, i, j)) :
          LET cs == CasesAt(height, width, i, j)
              v(n, ch) == BlurChannel(image, mem, width, i, j, cs[n], ch)
              last == Len(cs)
          IN  /\ BlurStore(i * width + j,
                           RGBTRIPLE(ToByte(v(last, "rgbtBlue")),
                                     ToByte(v(last, "rgbtGreen")),
                                     ToByte(v(last, "rgbtRed"))))
              /\ raw' = {v(n, ch) : n \in 1..Len(cs), ch \in Channels}
    /\ NextCell("blur_copy")
    /\ UNCHANGED <<argc, argv1, flag, bf, bi, height, width,
                   out, exitCode, cause, orig, gmag, stages>>
    /\ UNCHANGED <<inptr, outptr>>
    /\ UNCHANGED inpos
    /\ UNCHANGED res

\* one iteration of the copy loop: image[i][j] = temp[i][j]; after the last
\* one free(temp) and return
BlurCopy ==
    /\ pc = "blur_copy"
    /\ LET k == i * width + j
       IN  /\ image' = [image EXCEPT ![k] = temp[k]]
           /\ raw' = {temp[k][ch] : ch \in Channels}
    /\ NextCell(AfterBlurCopy)
    /\ temp' = IF pc' = pc THEN temp ELSE <<>>
    /\ UNCHANGED <<argc, argv1, flag, bf, bi, height, width,
                   out, exitCode, cause, orig, gmag, stages>>
    /\ UNCHANGED <<inptr, outptr>>
    /\ UNCHANGED inpos
    /\ TempOnReturn


(* ---------------- edges ---------------- *)
\* the multipliers the bodies of edges give the cells, by row and column
\* offset: a, b, c (horizontal) and d, e, f (vertical)
KernelGx == << <<-1, 0, 1>>, <<-2, 0, 2>>, <<-1, 0, 1>> >>
KernelGyPrewitt == << <<-1, -1, -1>>, <<0, 0, 0>>, <<1, 1, 1>> >>
KernelGy == << <<-1, -2, -1>>, <<0, 0, 0>>, <<1, 2, 1>> >>

\* round(sqrt(Gx*Gx + Gy*Gy)) of a case for channel ch of pixel (r,c)
Magnitude(buf, mem, w, r, c, case, ch) ==
    LET gx == CaseSum(KernelGx, buf, mem, w, r, c, case, ch)
        gy == CaseSum(KernelGy, buf, mem, w, r, c, case, ch)
    IN  RoundSqrt(gx * gx + gy * gy)

CapToBlack(m) == IF m > 255 THEN 255 ELSE 0
NoCap(m) == m
\* (m > 255) ? 255 : m
Cap(m) == IF m > 255 THEN 255 ELSE m

AfterEdgesCopyBlur == "blur"
\* what follows the copy loop of edges: free(temp) and return
AfterEdgesCopy == "write_image"

EdgesEnter ==
    /\ pc = "edges"
    /\ \/ Halt(1, "temp_alloc") /\ UNCHANGED <<temp, i, j, stages, gmag>>
       \/ /\ temp' = Zeroed(height * width)
          /\ gmag' = Zeroed(height * width)
          /\ i' = 0
          /\ j' = 0
          /\ pc' = IF EmptyGrid THEN AfterEdgesCopy ELSE "edges_loop"
          /\ stages' = Append(stages, "sobel")
          /\ UNCHANGED <<exitCode, cause>>
    /\ UNCHANGED <<argc, argv1, flag, bf, bi, height, width, image,
                   out, orig, raw>>
    /\ CloseOnExit
    /\ UNCHANGED inpos
    /\ TempOnEnter

EdgesPixel ==
    /\ pc = "edges_loop"
    /\ \E mem \in Memory(OutsideCells(height, width, i, j)) :
          LET cs == CasesAt(height, width, i, j)
              m(n, ch) == Magnitude(image, mem, width, i, j, cs[n], ch)
              last == Len(cs)
              k == i * width + j
          IN  /\ temp' = [temp EXCEPT ![k] =
                            RGBTRIPLE(ToByte(Cap(m(last, "rgbtBlue"))),
                                      ToByte(Cap(m(last, "rgbtGreen"))),
                                      ToByte(Cap(m(last, "rgbtRed"))))]
              /\ gmag' = [gmag EXCEPT ![k] =
                            RGBTRIPLE(m(last, "rgbtBlue"), m(last, "rgbtGreen"),
                                      m(last, "rgbtRed"))]
              /\ raw' = {Cap(m(n, ch)) : n \in 1..Len(cs), ch \in Channels}
    /\ NextCell("edges_copy")
    /\ UNCHANGED <<argc, argv1, flag, bf, bi, height, width, image,
                   out, exitCode, cause, orig, stages>>
    /\ UNCHANGED <<inptr, outptr>>
    /\ UNCHANGED inpos
    /\ UNCHANGED res

\* one iteration of the copy loop: image[i][j] = temp[i][j]; after the last
\* one free(temp) and return
EdgesCopy ==
    /\ pc = "edges_copy"
    /\ LET k == i * width + j
       IN  /\ image' = [image EXCEPT ![k] = temp[k]]
           /\ raw' = {temp[k][ch] : ch \in Channels}
    /\ NextCell(AfterEdgesCopy)
    /\ temp' = IF pc' = pc THEN temp ELSE <<>>
    /\ UNCHANGED <<argc, argv1, flag, bf, bi, height, width,
                   out, exitCode, cause, orig, gmag, stages>>
    /\ UNCHANGED <<inptr, outptr>>
    /\ UNCHANGED inpos
    /\ TempOnReturn

(* ---------------- write_image ---------------- *)
WriteHeaders ==
    /\ pc = "write_image"
    /\ \/ Halt(ERR_WRITE_HEADER, "write_header") /\ UNCHANGED <<out, i>>
       \/ /\ out' = [out EXCEPT !.bf = bf]
          /\ Halt(ERR_WRITE_INFO, "write_info")
          /\ UNCHANGED i
       \/ /\ out' = [out EXCEPT !.bf = bf, !.bi = bi]
          /\ i' = 0
          /\ IF height > 0
             THEN pc' = "write_rows" /\ UNCHANGED <<exitCode, cause>>
             ELSE Halt(SUCCESS, "success")
    /\ UNCHANGED <<argc, argv1, flag, bf, bi, height, width, image, temp, j,
                   orig, gmag, stages, raw>>
    /\ CloseOnReturn
    /\ UNCHANGED inpos
    /\ ReturnReleases

RowOf(img, w, r) == [c \in 0..(w - 1) |-> img[r * w + c]]

\* the bytes of row r of img as fwrite emits them: per pixel blue, green, red
RowBytes(img, w, r) ==
    [k \in 1..(w * SIZEOF_RGBTRIPLE) |->
        LET p == RowOf(img, w, r)[(k - 1) \div SIZEOF_RGBTRIPLE]
            m == (k - 1) % SIZEOF_RGBTRIPLE
        IN  IF m = 0 THEN p.rgbtBlue ELSE IF m = 1 THEN p.rgbtGreen ELSE p.rgbtRed]

\* n bytes written by fputc(0x00, outptr)
PadBytes(n) == [k \in 1..n |-> 0]

\* one iteration of the row loop of write_image; after the last row main
\* releases the grid, closes the files and returns SUCCESS
WriteRow ==
    /\ pc = "write_rows"
    /\ \/ width > 0 /\ Halt(ERR_WRITE_DATA, "write_data") /\ UNCHANGED <<out, i>>
       \/ /\ Padding(width) > 0
          /\ \E done \in 0..(Padding(width) - 1) :
                out' = [out EXCEPT !.rows =
                          Append(@, [pixels |-> RowBytes(image, width, i),
                                     pad |-> PadBytes(done)])]
          /\ Halt(ERR_WRITE_PADDING, "write_padding")
          /\ UNCHANGED i
       \/ /\ out' = [out EXCEPT !.rows =
                       Append(@, [pixels |-> RowBytes(image, width, i),
                                  pad |-> PadBytes(Padding(width))])]
          /\ i' = i + 1
          /\ IF i + 1 < height
             THEN UNCHANGED <<pc, exitCode, cause>>
             ELSE Halt(SUCCESS, "success")
    /\ UNCHANGED <<argc, argv1, flag, bf, bi, height, width, image, temp, j,
                   orig, gmag, stages, raw>>
    /\ CloseOnReturn
    /\ UNCHANGED inpos
    /\ ReturnReleases

(* ---------------- the program ---------------- *)
Next ==
    \/ ValidateArgs
    \/ OpenFiles
    \/ ReadHeaders
    \/ CheckFormat
    \/ AllocImage
    \/ ReadRow
    \/ ProcessImage
    \/ GrayscaleEnter
    \/ GrayscalePixel
    \/ ReflectEnter
    \/ ReflectSwap
    \/ ReflectNextRow
    \/ ReflectReturn
    \/ BlurEnter
    \/ BlurPixel
    \/ BlurCopy
    \/ EdgesEnter
    \/ EdgesPixel
    \/ EdgesCopy
    \/ WriteHeaders
    \/ WriteRow

Spec == Init /\ [][Next]_vars

(* ---------------- the transforms on their own ---------------- *)
\* The transforms as a caller of filters.c uses them: on a grid it supplies,
\* and, for grayscale and reflect, a second time on the result.

\* the sets of at most MaxMarks cells of a grid of n cells
MarkSets(n) ==
    {{s[x] : x \in 1..MaxMarks} \ {-1} : s \in [1..MaxMarks -> -1..(n - 1)]}

\* the grids of h x w pixels main can decode: pixels of Palette, at most
\* MaxMarks of them off the colour of the others
TestGrids(h, w) ==
    {[k \in 0..(h * w - 1) |-> IF k \in S THEN q ELSE p] :
        S \in MarkSets(h * w), p \in Palette, q \in Palette}

UniformColours == {RGBTRIPLE(0, 0, 0), RGBTRIPLE(11, 21, 30), RGBTRIPLE(200, 100, 50),
                   RGBTRIPLE(255, 255, 255)}

\* the grids of h x w pixels of one colour
UniformGrids(h, w) == {[k \in 0..(h * w - 1) |-> p] : p \in UniformColours}

\* the state at the call of process_image, for a grid of the caller's:
\* any grid for grayscale and reflect, a grid of one colour for blur and edges
InitApply ==
    \E f \in Flags, h \in 1..MaxH, w \in 1..MaxW :
        /\ pc = "process_image"
        /\ argc = REQUIRED_ARGS
        /\ argv1 = <<"-", f>>
        /\ flag = f
        /\ bf = [bfType |-> BITMAP_TYPE, bfOffBits |-> BITMAP_HEADER_SIZE]
        /\ bi = [biSize |-> 40, biWidth |-> w, biHeight |-> h, biBitCount |-> 24,
                 biCompression |-> BITMAP_COMPRESSION]
        /\ height = h
        /\ width = w
        /\ image \in (IF f \in {"g", "r"} THEN TestGrids(h, w) ELSE UniformGrids(h, w))
        /\ orig = image
        /\ temp = <<>>
        /\ i = h
        /\ j = 0
        /\ out = NoOutput
        /\ exitCode = -1
        /\ cause = ""
        /\ gmag = <<>>
        /\ stages = <<>>
        /\ raw = {}
        /\ inptr = "open"
        /\ outptr = "open"
        /\ inpos = BITMAP_HEADER_SIZE + h * (w * SIZEOF_RGBTRIPLE + Padding(w))
        /\ res = Allocated(NoResources, "image")

\* grayscale or reflect has returned from its first call: it is called again on the result
CallAgain ==
    /\ pc = "write_image"
    /\ flag \in {"g", "r"}
    /\ Len(stages) = 1
    /\ pc' = "process_image"
    /\ UNCHANGED <<argc, argv1, flag, bf, bi, height, width, image, temp, i, j,
                   out, exitCode, cause, orig, gmag, stages, raw, inptr, outptr, inpos, res>>

NextApply ==
    \/ ProcessImage
    \/ GrayscaleEnter
    \/ GrayscalePixel
    \/ ReflectEnter
    \/ ReflectSwap
    \/ ReflectNextRow
    \/ ReflectReturn
    \/ BlurEnter
    \/ BlurPixel
    \/ BlurCopy
    \/ EdgesEnter
    \/ EdgesPixel
    \/ EdgesCopy
    \/ CallAgain

SpecApply == InitApply /\ [][NextApply]_vars


(* ======================================================================= *)
(* The claims of the specification                                         *)
(* ======================================================================= *)

\* the transform has returned to main and nothing has been written yet
Returned(f) == pc = "write_image" /\ flag = f

Grid(h, w) == (0..(h - 1)) \X (0..(w - 1))
InGrid(h, w, r, c) == r \in 0..(h - 1) /\ c \in 0..(w - 1)

\* the sum of channel ch over the cells of the 3x3 neighbourhood of (r,c) inside the grid
NeighbourSum(img, h, w, r, c, ch) ==
    LET T(dr, dc) == IF InGrid(h, w, r + dr, c + dc)
                     THEN img[(r + dr) * w + (c + dc)][ch] ELSE 0
    IN  T(-1, -1) + T(-1, 0) + T(-1, 1)
        + T(0, -1) + T(0, 0) + T(0, 1)
        + T(1, -1) + T(1, 0) + T(1, 1)

NeighbourCount(h, w, r, c) ==
    Cardinality({d \in (-1..1) \X (-1..1) : InGrid(h, w, r + d[1], c + d[2])})

\* the integer nearest to s/n, a half rounding up
HalfUp(s, n) == CHOOSE v \in 0..255 : 2 * n * v <= 2 * s + n /\ 2 * s + n < 2 * n * (v + 1)

\* the mean of channel ch over the in-grid neighbours of (r,c)
BoxMean(img, h, w, r, c, ch) ==
    HalfUp(NeighbourSum(img, h, w, r, c, ch),
           NeighbourCount(h, w, r, c))

GxKernel == << <<-1, 0, 1>>, <<-2, 0, 2>>, <<-1, 0, 1>> >>
GyKernel == << <<-1, -2, -1>>, <<0, 0, 0>>, <<1, 2, 1>> >>

\* the kernel K applied at (r,c) to the scalar field S (a flat array), cells
\* outside the grid counting 0
Convolve(K, S, h, w, r, c) ==
    LET T(dr, dc) == IF InGrid(h, w, r + dr, c + dc)
                     THEN K[dr + 2][dc + 2] * S[(r + dr) * w + (c + dc)] ELSE 0
    IN  T(-1, -1) + T(-1, 0) + T(-1, 1)
        + T(0, -1) + T(0, 0) + T(0, 1)
        + T(1, -1) + T(1, 0) + T(1, 1)

\* round(sqrt(Gx^2 + Gy^2)) of the zero-padded Sobel operator on S at (r,c)
SobelZeroPadded(S, h, w, r, c) ==
    LET gx == Convolve(GxKernel, S, h, w, r, c)
        gy == Convolve(GyKernel, S, h, w, r, c)
    IN  RoundSqrt(gx * gx + gy * gy)

\* C1: after blur every channel of every pixel is the half-up mean of that
\* channel over the in-grid cells of the pixel's 3x3 neighbourhood, for every
\* grid of height >= 1 and width >= 1.
C1_BlurIsInGridMean ==
    Returned("b") =>
        \A cell \in Grid(height, width), ch \in Channels :
            image[cell[1] * width + cell[2]][ch]
                = BoxMean(orig, height, width, cell[1], cell[2], ch)

\* round(0.299 R + 0.587 G + 0.114 B)
Luminance(p) == RoundDiv(299 * p.rgbtRed + 587 * p.rgbtGreen + 114 * p.rgbtBlue, 1000)

\* white where the Sobel magnitude of the luminance exceeds the luminance, black elsewhere
Thresholded(img, h, w) ==
    [k \in DOMAIN img |->
        IF SobelZeroPadded([n \in DOMAIN img |-> Luminance(img[n])], h, w, k \div w, k % w)
              > Luminance(img[k])
        THEN RGBTRIPLE(255, 255, 255) ELSE RGBTRIPLE(0, 0, 0)]

\* C2 as the specification states it: the grid edges returns is the box blur,
\* applied once, of the binary image of the threshold of the Sobel magnitude
\* against the luminance.
C2_EdgesThresholdsAndSmooths ==
    Returned("e") =>
        \A cell \in Grid(height, width), ch \in Channels :
            image[cell[1] * width + cell[2]][ch]
                = BoxMean(Thresholded(orig, height, width), height, width,
                          cell[1], cell[2], ch)

\* C2, amended: the grid edges returns is neither thresholded nor smoothed:
\* every channel of every pixel is the Sobel magnitude computed for that
\* channel of that pixel, capped at 255 (on a grid of at least two rows and two
\* columns: the magnitude of the zero-padded Sobel operator on that channel of
\* the grid as it was on entry), and blur has not run.
C2_EdgesStoresCappedMagnitude ==
    Returned("e") =>
        /\ \A k \in DOMAIN image, ch \in Channels :
              image[k][ch] = (IF gmag[k][ch] > 255 THEN 255 ELSE gmag[k][ch])
        /\ (height >= 2 /\ width >= 2) =>
              \A cell \in Grid(height, width), ch \in Channels :
                 gmag[cell[1] * width + cell[2]][ch]
                    = SobelZeroPadded([n \in DOMAIN orig |-> orig[n][ch]],
                                      height, width, cell[1], cell[2])
        /\ \A n \in 1..Len(stages) : stages[n] # "blur"

\* a grid returned by edges in which a magnitude was capped and another stored as it is
C2_Witness ==
    /\ Returned("e")
    /\ \E k \in DOMAIN image : gmag[k].rgbtBlue > 255 /\ image[k].rgbtBlue = 255
    /\ \E k \in DOMAIN image : image[k].rgbtBlue \notin {0, 255}

\* C3: for every grid of height >= 1 and width >= 1 the Sobel stage of edges
\* computes, for every pixel, round(sqrt(Gx^2 + Gy^2)) of the two kernels on
\* the pixel's neighbourhood with every cell outside the grid counting 0.
C3_SobelIsZeroPadded ==
    Returned("e") =>
        \A cell \in Grid(height, width), ch \in Channels :
            gmag[cell[1] * width + cell[2]][ch]
                = SobelZeroPadded([n \in DOMAIN orig |-> orig[n][ch]],
                                  height, width, cell[1], cell[2])

\* C4 as the specification states it: a call of edges runs the stages
\* grayscale, luminance, Sobel, threshold and one blur, in that order.
C4_EdgesRunsFourStages ==
    Returned("e") => stages = <<"grayscale", "luminance", "sobel", "threshold", "blur">>

\* C4, amended: a call of edges runs one computing pass, the Sobel pass, once,
\* over the channel values the grid had on entry, and then copies the result
\* back; no grayscale, luminance, threshold or blur stage runs, and the only
\* early exit is the failed allocation of the buffer, before any pass.
C4_EdgesRunsSobelOnly ==
    flag = "e" =>
        /\ stages \in {<<>>, <<"sobel">>}
        /\ pc \in {"edges_loop", "edges_copy", "write_image", "write_rows"}
              => stages = <<"sobel">>
        /\ pc = "edges_loop" => image = orig
        /\ (pc = "halt" /\ stages = <<>> /\ orig # <<>>) => cause = "temp_alloc"

\* edges has returned after its one pass
C4_Witness == Returned("e") /\ stages = <<"sobel">> /\ image # orig

\* C5: grayscale sets the three channels of every pixel to the integer nearest
\* to (R + G + B) / 3 of that pixel's own channels before the call, a value in
\* 0..255; (10,20,30), (40,50,60), (70,80,90), (100,110,120) give 20, 50, 80, 110.
C5_GrayscaleIsRoundedMean ==
    /\ Returned("g") =>
          \A k \in DOMAIN image :
             \E v \in 0..255 :
                /\ image[k] = RGBTRIPLE(v, v, v)
                /\ 2 * (3 * v - (orig[k].rgbtRed + orig[k].rgbtGreen + orig[k].rgbtBlue))
                      \in -2..2
    /\ GrayValue(RGBTRIPLE(10, 20, 30)) = 20
    /\ GrayValue(RGBTRIPLE(40, 50, 60)) = 50
    /\ GrayValue(RGBTRIPLE(70, 80, 90)) = 80
    /\ GrayValue(RGBTRIPLE(100, 110, 120)) = 110

\* grayscale has returned a grid with a pixel whose mean was rounded up
C5_Witness ==
    /\ Returned("g")
    /\ \E k \in DOMAIN image : orig[k] = RGBTRIPLE(11, 21, 30) /\ image[k] = RGBTRIPLE(21, 21, 21)

\* C6: after reflect the pixel at (r,c) is the pixel that was at
\* (r, width-1-c), for every row and column and every width, odd or even.
C6_ReflectMirrorsRows ==
    Returned("r") =>
        \A cell \in Grid(height, width) :
            image[cell[1] * width + cell[2]]
                = orig[cell[1] * width + (width - 1 - cell[2])]

\* reflect has returned a grid of odd width that it changed
C6_Witness == Returned("r") /\ width = 3 /\ height >= 2 /\ image # orig

\* C7: blur overwrites no cell of the grid while it computes: during the
\* computing loop the grid is the grid on entry, the copy loop starts with the
\* whole buffer computed (on a grid of at least two rows and two columns: the
\* in-grid means of the grid on entry) and replaces the cells in order by the
\* cells of the buffer.
C7_BlurReadsOnlyTheOriginal ==
    flag = "b" =>
        /\ pc = "blur_loop" => image = orig
        /\ pc = "blur_copy" =>
              \A k \in DOMAIN image :
                 image[k] = (IF k < i * width + j THEN temp[k] ELSE orig[k])
        /\ (pc = "blur_copy" /\ i = 0 /\ j = 0 /\ height >= 2 /\ width >= 2) =>
              \A cell \in Grid(height, width), ch \in Channels :
                 temp[cell[1] * width + cell[2]][ch]
                    = BoxMean(orig, height, width, cell[1], cell[2], ch)

\* the computing loop of blur has stored values that differ from the grid
C7_Witness ==
    /\ flag = "b"
    /\ pc = "blur_loop"
    /\ i = height - 1
    /\ j = width - 1
    /\ \E k \in 0..(i * width + j - 1) : temp[k] # image[k]

\* C8: every value a transform assigns to a channel is in 0..255 when it is assigned.
C8_AssignedValuesAreBytes == raw \subseteq 0..255

\* edges has assigned a capped magnitude
C8_Witness ==
    /\ pc \in {"edges_loop", "edges_copy"}
    /\ 255 \in raw
    /\ \E k \in DOMAIN gmag : gmag[k].rgbtRed > 255 /\ temp[k].rgbtRed = 255

OtherErrors == {ERR_ARGS, ERR_OUTPUT_FILE, ERR_HEADER_READ, ERR_FORMAT, ERR_IMAGE_READ,
                ERR_SEEK, ERR_WRITE_HEADER, ERR_WRITE_INFO, ERR_WRITE_DATA,
                ERR_WRITE_PADDING}

\* C9: when the allocation of the buffer of blur or edges fails the run ends
\* with the grid unmodified and no output written, with an exit status that no
\* other failure of the program has.
C9_AllocFailureIsDistinct ==
    (pc = "halt" /\ cause = "temp_alloc" /\ flag \in {"b", "e"}) =>
        /\ image = orig
        /\ out = NoOutput
        /\ exitCode \notin OtherErrors
        /\ exitCode # SUCCESS

\* C10: an input whose type tag, info-header size, bit depth or compression
\* code is not the accepted one is rejected before any transform runs and
\* before anything is written; an input with the four fields valid and the
\* pixel data at offset 54 is not rejected by the format check.
C10_FormatIsCheckedFirst ==
    bf # NoHeader =>
        IF \/ bf.bfType # 19778
           \/ bi.biSize # 40
           \/ bi.biBitCount # 24
           \/ bi.biCompression # 0
        THEN /\ pc \in {"check_format", "halt"}
             /\ pc = "halt" => (cause = "format" /\ exitCode = ERR_FORMAT)
             /\ stages = <<>>
             /\ image = <<>>
             /\ out = NoOutput
        ELSE bf.bfOffBits = 54 => cause # "format"

\* an input of 32 bits per pixel, valid otherwise, has been rejected
C10_Witness ==
    /\ pc = "halt"
    /\ cause = "format"
    /\ bi.biBitCount = 32
    /\ bf.bfType = BITMAP_TYPE
    /\ bf.bfOffBits = BITMAP_HEADER_SIZE
    /\ bi.biSize = 40
    /\ bi.biCompression = BITMAP_COMPRESSION

\* the positions inside a transform, from its call to its return
InTransform == {"grayscale", "grayscale_loop", "reflect", "reflect_loop",
                "blur", "blur_loop", "blur_copy", "edges", "edges_loop", "edges_copy"}

\* the pass over the grid that the transform of flag f starts with
PassOf(f) ==
    CASE f = "b" -> "blur"
      [] f = "e" -> "sobel"
      [] f = "g" -> "grayscale"
      [] f = "r" -> "reflect"

\* C11: a run decodes, then runs one transform, then encodes: a transform is
\* entered only with the whole grid decoded, the only transform entered is the
\* one the flag selects, nothing is written while it runs, whatever is written
\* is written after it was entered and left, and a successful run has run
\* exactly that one transform.
C11_DecodeTransformEncode ==
    /\ pc \in InTransform \cup {"process_image"} =>
          /\ DOMAIN orig = 0..(height * width - 1)
          /\ out = NoOutput
    /\ pc = "process_image" => (stages = <<>> /\ image = orig)
    /\ stages # <<>> => stages = <<PassOf(flag)>>
    /\ pc \in InTransform \ {"grayscale", "reflect", "blur", "edges"}
          => stages = <<PassOf(flag)>>
    /\ out # NoOutput => (stages = <<PassOf(flag)>> /\ pc \in {"write_rows", "halt"})
    /\ exitCode = SUCCESS =>
          /\ stages = <<PassOf(flag)>>
          /\ Len(out.rows) = height

\* a successful run of edges that changed the grid
C11_Witness ==
    /\ exitCode = SUCCESS
    /\ flag = "e"
    /\ stages = <<"sobel">>
    /\ image # orig
    /\ Len(out.rows) = height

\* the fields of the headers fh and ih that do not have the accepted value
WrongFields(fh, ih) ==
    {f \in {"type", "offset", "size", "depth", "compression"} :
        \/ f = "type" /\ fh.bfType # 19778
        \/ f = "offset" /\ fh.bfOffBits # 54
        \/ f = "size" /\ ih.biSize # 40
        \/ f = "depth" /\ ih.biBitCount # 24
        \/ f = "compression" /\ ih.biCompression # 0}

NamedFormatCauses == {"type", "size", "depth", "compression"}

\* the reported failures of reading and writing the container, by the place the run ends at
ContainerCauses == {"header_read", "format", "image_read", "seek",
                    "write_header", "write_info", "write_data", "write_padding"}

\* C12 as the specification states it: every cause of malformed input has a
\* result code of its own: a run rejected for one of wrong type tag, wrong
\* header size, wrong bit depth, wrong compression ends with a code that the
\* format check gives to no header rejected for another one of them, and no
\* container failure ends with the code of the usage error.
C12_EachCauseHasItsOwnCode ==
    /\ (pc = "halt" /\ cause = "format" /\ Cardinality(WrongFields(bf, bi)) = 1
            /\ WrongFields(bf, bi) \subseteq NamedFormatCauses) =>
          \A fh \in FileHeaders, ih \in InfoHeaders :
             (/\ Cardinality(WrongFields(fh, ih)) = 1
              /\ WrongFields(fh, ih) \subseteq NamedFormatCauses
              /\ WrongFields(fh, ih) # WrongFields(bf, bi))
                => FormatCode(fh, ih) # exitCode
    /\ (pc = "halt" /\ cause \in ContainerCauses) => exitCode # ERR_ARGS

\* C12, amended: an unsupported header (wrong type tag, pixel-data offset,
\* header size, bit depth or compression, alone or together) is reported with
\* the one code 4 whichever field is wrong; that code, the code of a short
\* header read (3), of truncated pixel data (6), of a failed seek (7) and of
\* the four write failures (8, 9, 10, 11) are pairwise different, each is
\* yielded by that cause only, and none is the code of the usage error (1).
C12_OneCodePerKindOfFailure ==
    pc = "halt" =>
        /\ (cause = "format") = (exitCode = 4)
        /\ (cause = "format") = (bf # NoHeader /\ WrongFields(bf, bi) # {})
        /\ (cause = "header_read") = (exitCode = 3)
        /\ (cause = "image_read") = (exitCode = 6)
        /\ (cause = "seek") = (exitCode = 7)
        /\ (cause = "write_header") = (exitCode = 8)
        /\ (cause = "write_info") = (exitCode = 9)
        /\ (cause = "write_data") = (exitCode = 10)
        /\ (cause = "write_padding") = (exitCode = 11)
        /\ cause \in ContainerCauses => exitCode # ERR_ARGS
        /\ cause = "usage" => exitCode = ERR_ARGS

\* a run rejected for its compression code alone, with the code that the bit depth alone also gets
C12_Witness ==
    /\ pc = "halt"
    /\ cause = "format"
    /\ exitCode = ERR_FORMAT
    /\ WrongFields(bf, bi) = {"compression"}
    /\ \E ih \in InfoHeaders :
          WrongFields(bf, ih) = {"depth"} /\ FormatCode(bf, ih) = exitCode

\* the output holds both headers and every row of the grid, each with its padding
CompleteOutput ==
    /\ out.bf # NoHeader
    /\ out.bi # NoInfo
    /\ Len(out.rows) = height
    /\ \A r \in 1..Len(out.rows) :
          /\ Len(out.rows[r].pixels) = 3 * width
          /\ (Len(out.rows[r].pixels) + Len(out.rows[r].pad)) % 4 = 0

\* C13: a run that ends with a reported container error (short header read,
\* unsupported format, truncated pixel data, seek failure, write failure)
\* leaves no partial output: the output holds no byte written by the run, or
\* it holds a complete encoded image.
C13_NoPartialOutput ==
    (pc = "halt" /\ cause \in ContainerCauses) => (out = NoOutput \/ CompleteOutput)

\* the flag argument is one of the four flags and nothing else, with or without a leading dash
ProperFlagArgument ==
    argv1 \in {<<"-", f>> : f \in Flags} \cup {<<f>> : f \in Flags}

\* C14: the program goes on to open files only when it has three arguments
\* and the flag argument is one of the four single-character flags; every
\* other invocation (wrong count, another flag, extra characters after the
\* flag letter) ends with the usage error and no file opened or created.
C14_OpensFilesOnlyOnProperInvocation ==
    /\ (pc = "open_files" \/ inptr # "none" \/ outptr # "none") =>
          (argc = REQUIRED_ARGS /\ ProperFlagArgument)
    /\ (pc # "validate_args" /\ ~(argc = REQUIRED_ARGS /\ ProperFlagArgument)) =>
          /\ pc = "halt"
          /\ cause = "usage"
          /\ exitCode = ERR_ARGS
          /\ inptr = "none"
          /\ outptr = "none"

\* the size in bytes of a row of w pixels of 24 bits in a bitmap file
BmpRowSize(w) == ((24 * w + 31) \div 32) * 4

\* the rows of an output, one after the other: each row's pixel bytes, then its padding bytes
RECURSIVE Flatten(_)
Flatten(rows) ==
    IF rows = <<>> THEN <<>>
    ELSE Head(rows).pixels \o Head(rows).pad \o Flatten(Tail(rows))

\* the byte stream written: the two headers, then the rows
OutputStream == <<out.bf, out.bi>> \o Flatten(out.rows)

\* the input file whose headers are bf and bi, whose pixels are the grid as
\* decoded and whose padding bytes all have the value padByte
InputStream(padByte) ==
    <<bf, bi>> \o
    [k \in 1..(height * BmpRowSize(width)) |->
        LET r == (k - 1) \div BmpRowSize(width)
            b == (k - 1) % BmpRowSize(width)
            p == orig[r * width + b \div 3]
        IN  IF b >= 3 * width THEN padByte
            ELSE IF b % 3 = 0 THEN p.rgbtBlue
            ELSE IF b % 3 = 1 THEN p.rgbtGreen
            ELSE p.rgbtRed]

\* C15: every row of the input is read at its own offset, the padding bytes
\* before it skipped, and the grid handed to the transform holds height x width
\* pixels and nothing else; the output of a successful run is the 54 bytes of
\* the two headers as read, then per row of the grid, in order, its
\* width x 3 pixel bytes and (4 - (width*3) mod 4) mod 4 zero bytes, every row
\* a multiple of 4 bytes long; when the transform changed nothing and the
\* input's padding is zero the output stream is the input stream.
C15_OutputIsHeadersRowsAndZeroPadding ==
    /\ pc = "read_rows" => inpos = 54 + i * BmpRowSize(width)
    /\ pc \in InTransform =>
          /\ inpos = 54 + height * BmpRowSize(width)
          /\ DOMAIN image = 0..(height * width - 1)
    /\ exitCode = SUCCESS =>
          /\ out.bf = bf
          /\ out.bi = bi
          /\ SIZEOF_BITMAPFILEHEADER + SIZEOF_BITMAPINFOHEADER = 54
          /\ Len(out.rows) = height
          /\ \A r \in 1..height :
                /\ Len(out.rows[r].pixels) = width * 3
                /\ \A c \in 0..(width - 1) :
                      /\ out.rows[r].pixels[3 * c + 1] = image[(r - 1) * width + c].rgbtBlue
                      /\ out.rows[r].pixels[3 * c + 2] = image[(r - 1) * width + c].rgbtGreen
                      /\ out.rows[r].pixels[3 * c + 3] = image[(r - 1) * width + c].rgbtRed
                /\ Len(out.rows[r].pad) = (4 - ((width * 3) % 4)) % 4
                /\ \A k \in 1..Len(out.rows[r].pad) : out.rows[r].pad[k] = 0
                /\ (Len(out.rows[r].pixels) + Len(out.rows[r].pad)) % 4 = 0
          /\ image = orig => OutputStream = InputStream(0)

\* a successful run whose transform changed nothing, on a grid of two colours
\* whose rows are padded
C15_Witness ==
    /\ exitCode = SUCCESS
    /\ image = orig
    /\ height >= 2
    /\ Padding(width) > 0
    /\ \E k \in DOMAIN orig : orig[k] # orig[0]
    /\ OutputStream = InputStream(0)
    /\ Len(OutputStream) = 2 + height * BmpRowSize(width)

\* the transform of flag f has returned from its n-th call in a row
ReturnedFrom(f, n) == pc = "write_image" /\ flag = f /\ Len(stages) = n

\* C16: reflect applied twice in succession to a grid of height >= 1 and
\* width >= 1, odd or even, returns the grid as it was before the first call.
C16_ReflectTwiceIsIdentity ==
    ReturnedFrom("r", 2) =>
        /\ stages = <<"reflect", "reflect">>
        /\ image = orig

\* reflect has returned from its second call on a grid of two rows or more that one call changes
C16_Witness ==
    /\ ReturnedFrom("r", 2)
    /\ image = orig
    /\ width >= 2
    /\ height >= 2
    /\ \E r \in 0..(height - 1) : orig[r * width] # orig[r * width + width - 1]

\* the three channels of pixel p are equal
IsGray(p) == p.rgbtBlue = p.rgbtGreen /\ p.rgbtGreen = p.rgbtRed

\* C17: grayscale changes no pixel whose three channels are already equal
\* (whatever the value of the channels, 0..255), so a call of grayscale on the
\* result of grayscale changes no pixel: grayscale(grayscale(G)) = grayscale(G).
C17_GrayscaleIsIdempotent ==
    /\ [](pc = "grayscale" =>
             \A v \in 0..255 : ToByte(GrayValue(RGBTRIPLE(v, v, v))) = v)
    /\ [](ReturnedFrom("g", 1) => \A k \in DOMAIN image : IsGray(image[k]))
    /\ [][pc = "grayscale_loop" =>
             /\ \A k \in DOMAIN image : IsGray(image[k]) => image'[k] = image[k]
             /\ Len(stages) = 2 => image' = image]_vars

\* grayscale has returned from its second call on a grid that its first call changed
C17_Witness ==
    /\ ReturnedFrom("g", 2)
    /\ stages = <<"grayscale", "grayscale">>
    /\ \E k \in DOMAIN image : ~IsGray(orig[k]) /\ image[k] = RGBTRIPLE(21, 21, 21)
    /\ \E k \in DOMAIN image : orig[k] = RGBTRIPLE(255, 255, 255) /\ image[k] = orig[k]

\* every pixel of the grid img has the colour of its first pixel
IsUniform(img) == \A k \in DOMAIN img : img[k] = img[0]

\* C18: blur returns a grid of one colour unchanged, border and corner pixels
\* included, for every height >= 1 and width >= 1, single rows and single
\* columns included.
C18_BlurKeepsUniformGrids ==
    (ReturnedFrom("b", 1) /\ IsUniform(orig)) => image = orig

\* C19: blur returns a grid of one pixel unchanged, whatever the pixel.
C19_BlurKeepsSinglePixel ==
    (ReturnedFrom("b", 1) /\ height = 1 /\ width = 1) => image = orig

\* C20 as the specification states it: edges returns an all-black grid for
\* every grid of one colour, black or not, of every height >= 1 and width >= 1,
\* border and corner pixels included.
C20_EdgesBlackensUniformGrids ==
    (ReturnedFrom("e", 1) /\ IsUniform(orig)) =>
        \A k \in DOMAIN image : image[k] = RGBTRIPLE(0, 0, 0)

\* what edges stores in a channel of the pixel (r,c) of a grid of h x w pixels,
\* h >= 2 and w >= 2, whose pixels all have the value v in that channel: the
\* cells outside the grid count 0, so the gradient is 0 inside, 4v on a side
\* and (3v, 3v) in a corner
UniformMagnitude(h, w, r, c, v) ==
    LET onRow == r \in {0, h - 1}
        onCol == c \in {0, w - 1}
        m == IF onRow /\ onCol THEN RoundSqrt(18 * v * v)
             ELSE IF onRow \/ onCol THEN 4 * v
             ELSE 0
    IN  IF m > 255 THEN 255 ELSE m

\* C20, amended: on a grid of at least two rows and two columns, edges returns
\* an all-black grid for an all-black grid; for a grid of another single colour
\* it turns black the pixels whose eight neighbours are all in the grid, and
\* gives a pixel on a side of the grid 4 times the channel value and a pixel in
\* a corner round(sqrt(18) times the channel value), capped at 255, in each
\* channel: not black unless the channel is 0.
C20_EdgesOnUniformGridsMarksTheBorder ==
    (ReturnedFrom("e", 1) /\ IsUniform(orig) /\ height >= 2 /\ width >= 2) =>
        /\ orig[0] = RGBTRIPLE(0, 0, 0) => image = orig
        /\ \A cell \in Grid(height, width), ch \in Channels :
              image[cell[1] * width + cell[2]][ch]
                 = UniformMagnitude(height, width, cell[1], cell[2], orig[0][ch])
        /\ \A cell \in Grid(height, width) :
              (cell[1] \in 1..(height - 2) /\ cell[2] \in 1..(width - 2)) =>
                 image[cell[1] * width + cell[2]] = RGBTRIPLE(0, 0, 0)

\* edges has returned on a grid of one colour, not black, with a pixel inside:
\* the pixel inside is black, a side pixel is not, a corner is capped
C20_Witness ==
    /\ ReturnedFrom("e", 1)
    /\ IsUniform(orig)
    /\ orig[0] = RGBTRIPLE(200, 100, 50)
    /\ height = 3
    /\ width = 3
    /\ image[4] = RGBTRIPLE(0, 0, 0)
    /\ image[1] = RGBTRIPLE(255, 255, 200)
    /\ image[0] = RGBTRIPLE(255, 255, 212)

\* the program positions at which main holds the image grid it allocated
ImageHeld == {"read_rows", "process_image", "write_image", "write_rows"} \cup InTransform

\* C21: every grid handed to a transform has height >= 1 and width >= 1: an
\* input whose header declares a width <= 0 or a height of 0 never reaches a
\* transform, and no buffer (the image grid, a transform's temp) is sized from
\* a dimension that is not positive.
C21_TransformsGetPositiveGrids ==
    /\ pc \in InTransform => (height >= 1 /\ width >= 1)
    /\ pc \in ImageHeld => (height >= 1 /\ width >= 1)

\* the program positions at which a transform works on its temp
TempHeld == {"reflect_loop", "blur_loop", "blur_copy", "edges_loop", "edges_copy"}

\* C22: on every path by which a run ends after both files have been opened
\* (the failure of a transform's allocation of temp among them), each of the
\* two files has been closed exactly once and every buffer that was allocated
\* (the image grid, the transform's temp) has been released exactly once; no
\* buffer is used after its release.
C22_EveryPathClosesAndReleasesOnce ==
    /\ (pc = "halt" /\ outptr # "none") =>
          /\ \A f \in Streams : res.closes[f] = 1
          /\ \A b \in Buffers : res.frees[b] = res.allocs[b]
          /\ res.live = {}
    /\ \A b \in Buffers : res.frees[b] <= res.allocs[b]
    /\ pc \in ImageHeld => "image" \in res.live
    /\ pc \in TempHeld => "temp" \in res.live

\* the cells <<row, column>> that the cases holding at pixel (r,c) read
CellsRead(h, w, r, c) ==
    LET cs == CasesAt(h, w, r, c)
    IN  UNION {{<<r + dr, c + dc>> : dr \in Offsets(cs[n][1]), dc \in Offsets(cs[n][2])} :
               n \in 1..Len(cs)}

\* C23: for every height >= 1 and width >= 1, every cell that reflect, blur
\* and edges read or write, in the image grid and in temp, has its row in
\* 0..height-1 and its column in 0..width-1, grids of one row or one column
\* included; and for each pixel exactly one of the border, corner and interior
\* cases of blur and of edges assigns its result.
C23_CellsInRangeAndOneCasePerPixel ==
    (height >= 1 /\ width >= 1) =>
        /\ pc \in {"blur_loop", "edges_loop"} =>
              /\ InGrid(height, width, i, j)
              /\ Len(CasesAt(height, width, i, j)) = 1
              /\ \A cell \in CellsRead(height, width, i, j) :
                    InGrid(height, width, cell[1], cell[2])
        /\ pc \in {"blur_copy", "edges_copy"} => InGrid(height, width, i, j)
        /\ (pc = "reflect_loop" /\ i < height /\ j < SwapCount(width)) =>
              /\ InGrid(height, width, i, j)
              /\ InGrid(height, width, i, width - 1 - j)

====
